---- MODULE Spec2Model ----
(***************************************************************************)
(* Model of mining/hashimoto.py: the k2dr DAG producer, the memoized quick *)
(* calculator, the hashimoto mixer (full and light), the miner, the light  *)
(* verifier and the DAG-set manager.                                       *)
(*                                                                         *)
(* Widths are scaled so that the values fit the model checker's integers:  *)
(* the sponge digest has HashBits bits instead of 256, so an entry has     *)
(* 2*HashBits bits instead of 512, P = (2^HashBits - PrimeGap)^2 instead   *)
(* of (2^256 - 4294968273)^2 and 2^(2*HashBits) stands for 2^512.  Every   *)
(* other constant (the 10-bit picker shift, the 64-byte nonce encoding,    *)
(* base 256, k = 2, w = 2) is the source's.                                *)
(*                                                                         *)
(* Python lists are 0-based: the list element o[pos] is o[pos + 1] here.   *)
(***************************************************************************)
EXTENDS Integers, Sequences, FiniteSets, TLC

VARIABLES
    params,         \* the params object passed to every operation
    key,            \* which sponge primitive the deployment uses
    seedset,        \* list of seeds, one per DAG slot
    daggerset,      \* list of DAGs, one per slot
    pc,             \* where the running call is: "idle", "mine", "update"
    mn,             \* locals of mine(): header, orignonce, nonce
    last,           \* the last completed call and what it returned
    known_default,  \* the default value of quick_calc_k2dr's argument known
    upd,            \* locals of update_daggerset(): seed, idx
    rd,             \* locals of a hashimoto() call in progress on another thread
    dep             \* inputs and outputs of one dependency-index computation

vars ==
    <<params, key, seedset, daggerset, pc, mn, last, known_default, upd, rd, dep>>

(***************************************************************************)
(* Bounds of the model.                                                    *)
(***************************************************************************)
HashBits == 6
PrimeGap == 3
MaxKey == 1
MaxDagSize == 4
MaxD == 3
NumDags == 2
Lookups == 2
Diff == 4
MaxNonce == 3
DepMaxI == 8
DepMaxD == 4
DepMaxPicker == 4095
CfgMax == 2

(***************************************************************************)
(* Constants of the program.                                               *)
(***************************************************************************)
K == 2
W == 2
PickerShift == 10
EncodeLen == 64
ByteBase == 256
EntryBytes == 64

(***************************************************************************)
(* Integer arithmetic of the source: **, |, ^, >>, pow(b, e, m).           *)
(***************************************************************************)
RECURSIVE Pow2(_)
Pow2(n) ==
    IF n = 0 THEN 1 ELSE 2 * Pow2(n - 1)

Sq(x) ==
    x * x

RECURSIVE BitOr(_, _)
BitOr(a, b) ==
    IF a = 0 THEN b
    ELSE IF b = 0 THEN a
    ELSE (IF a % 2 = 1 \/ b % 2 = 1 THEN 1 ELSE 0) + 2 * BitOr(a \div 2, b \div 2)

RECURSIVE BitXor(_, _)
BitXor(a, b) ==
    IF a = 0 THEN b
    ELSE IF b = 0 THEN a
    ELSE (IF a % 2 = b % 2 THEN 0 ELSE 1) + 2 * BitXor(a \div 2, b \div 2)

Shr(x, n) ==
    x \div Pow2(n)

\* pow(b, e, m): binary exponentiation, reduced at every step
RECURSIVE pow(_, _, _)
pow(b, e, m) ==
    IF e = 0 THEN 1 % m
    ELSE LET h == pow(b, e \div 2, m)
             s == (h * h) % m
         IN  IF e % 2 = 1 THEN (s * (b % m)) % m ELSE s

HashSpace ==
    Pow2(HashBits)

\* P = (2**256 - 4294968273)**2
P ==
    Sq(HashSpace - PrimeGap)

\* 2**512
MixSpace ==
    Pow2(2 * HashBits)

(***************************************************************************)
(* Byte strings: decode_int, encode_int, and the sponge.                   *)
(***************************************************************************)
RECURSIVE decode_loop(_, _, _)
decode_loop(s, o, i) ==
    IF i > Len(s) THEN o
    ELSE decode_loop(s, o * ByteBase + s[i], i + 1)

decode_int(s) ==
    decode_loop(s, 0, 1)

\* x after n rounds of x //= 256 (once x is 0 it stays 0)
RECURSIVE encode_x(_, _)
encode_x(x, n) ==
    IF n = 0 \/ x = 0 THEN x
    ELSE encode_x(x \div ByteBase, n - 1)

\* round n of the loop puts chr(x % 256) in front: it ends up at place
\* EncodeLen - n of the 64 (0-based)
encode_int(x) ==
    [j \in 1..EncodeLen |-> encode_x(x, EncodeLen - j) % ByteBase]

\* The sponge is an external primitive: any deterministic function of the
\* bytes.  This one is a position-weighted checksum of the bytes, of their
\* number and of key, squeezed to one digest byte of HashBits bits.
RECURSIVE absorb(_, _, _)
absorb(x, lo, hi) ==
    IF lo > hi THEN 0
    ELSE IF lo = hi THEN (2 * lo - 1) * x[lo]
    ELSE LET mid == (lo + hi) \div 2
         IN  absorb(x, lo, mid) + absorb(x, mid + 1, hi)

sha3_256(x) ==
    <<(6 * key + 3 * Len(x) + absorb(x, 1, Len(x))) % HashSpace>>

sha3(x) ==
    decode_int(sha3_256(x))

(***************************************************************************)
(* Python list indexing: a negative index counts from the end, anything    *)
(* outside [-len, len) raises IndexError.                                  *)
(***************************************************************************)
InRange(o, pos) ==
    -Len(o) <= pos /\ pos < Len(o)

Item(o, pos) ==
    IF pos < 0 THEN o[pos + Len(o) + 1] ELSE o[pos + 1]

(***************************************************************************)
(* produce_dag_k2dr.  The loop state is the list o, the running picker and *)
(* the exception raised, if any.                                           *)
(***************************************************************************)
produce_f(i, d) ==
    (i \div d) + 1

produce_pos_high(i, f, curpicker) ==
    (i - f) + (curpicker % f)

\* the low index without its "- 1"
produce_pos_low_off(f, curpicker) ==
    f - (curpicker % f)

produce_pos_low(f, curpicker) ==
    (f - (curpicker % f)) - 1

\* the entry reduced modulo 2**512 instead of P
produce_hash_wide(x, w) ==
    pow(x, w, MixSpace)

produce_hash(x, w) ==
    pow(x, w, P)

produce_picker(picker, init) ==
    (picker * init) % P

produce_step(prm, init, st, i) ==
    IF prm.d = 0 THEN [st EXCEPT !.err = "ZeroDivisionError"]
    ELSE
        LET picker == produce_picker(st.picker, init)
            f == produce_f(i, prm.d)
            hi == produce_pos_high(i, f, picker)
            lo == produce_pos_low(f, Shr(picker, PickerShift))
        IN  IF ~InRange(st.o, hi) \/ ~InRange(st.o, lo)
            THEN [st EXCEPT !.picker = picker, !.err = "IndexError"]
            ELSE LET x == BitOr(BitOr(0, Item(st.o, hi)), Item(st.o, lo))
                 IN  [o |-> Append(st.o, produce_hash(x, prm.w)),
                      picker |-> picker,
                      err |-> "none"]

\* iterations i, i + 1, ..., n - 1 of the loop, stopping at an exception
RECURSIVE produce_loop(_, _, _, _, _)
produce_loop(prm, init, st, i, n) ==
    IF i >= n \/ st.err # "none" THEN st
    ELSE produce_loop(prm, init, produce_step(prm, init, st, i), i + 1, n)

produce_start(seed) ==
    [o |-> <<Sq(sha3(seed))>>, picker |-> 1, err |-> "none"]

produce_dag_k2dr(prm, seed) ==
    LET st == produce_start(seed)
    IN  produce_loop(prm, st.o[1], st, 1, prm.dag_size)

produce_dag(prm, seed) ==
    produce_dag_k2dr(prm, seed)

(***************************************************************************)
(* get_daggerset: one DAG per seed, in order; the first exception ends it. *)
(***************************************************************************)
RECURSIVE get_daggerset_loop(_, _, _, _)
get_daggerset_loop(prm, seeds, acc, j) ==
    IF j > Len(seeds) THEN [dags |-> acc, err |-> "none"]
    ELSE LET r == produce_dag(prm, seeds[j])
         IN  IF r.err # "none" THEN [dags |-> <<>>, err |-> r.err]
             ELSE get_daggerset_loop(prm, seeds, Append(acc, r.o), j + 1)

get_daggerset(prm, seeds) ==
    get_daggerset_loop(prm, seeds, <<>>, 1)

(***************************************************************************)
(* quick_calc_k2dr.  A known-map is a function from entry indices to       *)
(* entries; calc returns the entry together with the map it leaves.        *)
(***************************************************************************)
EmptyMap ==
    [i \in {} |-> 0]

calc_f(i, d) ==
    (i \div d) + 1

\* the high dependency taken to be the previous entry, whatever the picker
calc_pos_high_prev(i, f, curpicker) ==
    i - 1

calc_pos_high(i, f, curpicker) ==
    (i - f) + (curpicker % f)

calc_pos_low(f, curpicker) ==
    (f - (curpicker % f)) - 1

\* the picker of the next iteration
calc_picker_off(init, i) ==
    pow(init, i + 1, P)

calc_picker(init, i) ==
    pow(init, i, P)

calc_hash(x, w) ==
    pow(x, w, P)

RECURSIVE calc(_, _, _, _)
calc(prm, init, i, known) ==
    IF i \in DOMAIN known THEN [ret |-> known[i], known |-> known]
    ELSE
        LET curpicker == calc_picker(init, i)
            f == calc_f(i, prm.d)
            hi == calc(prm, init, calc_pos_high(i, f, curpicker), known)
            lo == calc(prm, init,
                       calc_pos_low(f, Shr(curpicker, PickerShift)), hi.known)
            x == BitOr(BitOr(0, hi.ret), lo.ret)
            v == calc_hash(x, prm.w)
        IN  [ret |-> v, known |-> (i :> v) @@ lo.known]

quick_calc_k2dr(prm, seed, pos, known) ==
    LET init == Sq(sha3(seed))
    IN  calc(prm, init, pos, (0 :> init) @@ known)

quick_calc(prm, seed, pos, known) ==
    quick_calc_k2dr(prm, seed, pos, known)

(***************************************************************************)
(* hashimoto, light_hashimoto, light_verify.                               *)
(***************************************************************************)
mix_init(header, nonce) ==
    Sq(sha3(header \o encode_int(nonce)))

RECURSIVE hashimoto_loop(_, _, _)
hashimoto_loop(dags, mix, n) ==
    IF n = 0 THEN mix
    ELSE LET dag == dags[(mix % Len(dags)) + 1]
             pos == mix % Len(dags[1])
         IN  hashimoto_loop(dags, BitXor(mix, dag[pos + 1]), n - 1)

hashimoto(dags, lookups, header, nonce) ==
    hashimoto_loop(dags, mix_init(header, nonce), lookups)

\* dict((s, {}) for s in seedset)
light_known(seeds) ==
    [s \in {seeds[j] : j \in 1..Len(seeds)} |-> EmptyMap]

\* one known-map shared by all the seeds of the call
RECURSIVE light_loop_shared(_, _, _, _, _)
light_loop_shared(prm, seeds, known, mix, n) ==
    IF n = 0 THEN [mix |-> mix, known |-> known]
    ELSE LET seed == seeds[(mix % Len(seeds)) + 1]
             pos == mix % prm.dag_size
             r == quick_calc(prm, seed, pos, known[seeds[1]])
         IN  light_loop_shared(prm, seeds, [known EXCEPT ![seeds[1]] = r.known],
                               BitXor(mix, r.ret), n - 1)

RECURSIVE light_loop(_, _, _, _, _)
light_loop(prm, seeds, known, mix, n) ==
    IF n = 0 THEN [mix |-> mix, known |-> known]
    ELSE LET seed == seeds[(mix % Len(seeds)) + 1]
             pos == mix % prm.dag_size
             r == quick_calc(prm, seed, pos, known[seed])
         IN  light_loop(prm, seeds, [known EXCEPT ![seed] = r.known],
                        BitXor(mix, r.ret), n - 1)

light_hashimoto(prm, seeds, header, nonce) ==
    light_loop(prm, seeds, light_known(seeds), mix_init(header, nonce),
               prm.lookups).mix

threshold(prm) ==
    MixSpace \div prm.diff

light_verify(prm, seeds, header, nonce) ==
    light_hashimoto(prm, seeds, header, nonce) <= threshold(prm)

(***************************************************************************)
(* The values the operations are called with.                              *)
(***************************************************************************)
\* str(i) for a one-digit i
str(i) ==
    <<48 + i>>

\* 'new'
SeedNew ==
    <<110, 101, 119>>

InitSeeds ==
    {str(0), str(1)}

Seeds ==
    {str(0), str(1), str(2), SeedNew}

\* 'test%d' % i
test(i) ==
    <<116, 101, 115, 116>> \o str(i)

Headers ==
    {test(0), test(1)}

\* class params: dag_size is derived from memory and numdags
params_of(memory, numdags, lookups, diff, k, d, w) ==
    [memory |-> memory,
     numdags |-> numdags,
     dag_size |-> (memory \div numdags) \div EntryBytes,
     lookups |-> lookups,
     diff |-> diff,
     k |-> k,
     d |-> d,
     w |-> w]

ValidParams ==
    {params_of(NumDags * n * EntryBytes, NumDags, Lookups, Diff, K, d, W) :
        n \in 1..MaxDagSize, d \in 2..MaxD}

NoCall ==
    [op |-> "none"]

NoMine ==
    [header |-> <<>>, orignonce |-> 0, nonce |-> 0]

NoUpd ==
    [seed |-> <<>>, idx |-> 0]

NoRd ==
    [pc |-> "idle", header |-> <<>>, nonce |-> 0, mix |-> 0, i |-> 0]

NoDep ==
    [i |-> 0, d |-> 0, picker |-> 0, done |-> FALSE]

(***************************************************************************)
(* The sequential program: a DAG-set is built, then update_daggerset,      *)
(* light_verify and mine are called in any order, each running to its end. *)
(***************************************************************************)
Init ==
    /\ params \in ValidParams
    /\ key \in 0..MaxKey
    /\ seedset \in [1..NumDags -> InitSeeds]
    /\ daggerset = get_daggerset(params, seedset).dags
    /\ pc = "idle"
    /\ mn = NoMine
    /\ last = NoCall
    /\ known_default = EmptyMap
    /\ upd = NoUpd
    /\ rd = NoRd
    /\ dep = NoDep

\* the slot after the one the seed selects
update_idx_off(seed, dags) ==
    (decode_int(seed) + 1) % Len(dags)

update_idx(seed, dags) ==
    decode_int(seed) % Len(dags)

update_daggerset(seed) ==
    /\ pc = "idle"
    /\ LET idx == update_idx(seed, daggerset)
       IN  /\ seedset' = [seedset EXCEPT ![idx + 1] = seed]
           /\ daggerset' = [daggerset EXCEPT ![idx + 1] = produce_dag(params, seed).o]
           /\ last' = [op |-> "update_daggerset", seed |-> seed, idx |-> idx]
    /\ UNCHANGED <<params, key, pc, mn, known_default, upd, rd, dep>>

call_light_verify(header, nonce) ==
    /\ pc = "idle"
    /\ last' = [op |-> "light_verify",
                header |-> header,
                nonce |-> nonce,
                mix |-> light_hashimoto(params, seedset, header, nonce),
                ret |-> light_verify(params, seedset, header, nonce)]
    /\ UNCHANGED <<params, key, seedset, daggerset, pc, mn, known_default, upd, rd, dep>>

mine_start(header, nonce) ==
    /\ pc = "idle"
    /\ pc' = "mine"
    /\ mn' = [header |-> header, orignonce |-> nonce, nonce |-> nonce]
    /\ last' = NoCall
    /\ UNCHANGED <<params, key, seedset, daggerset, known_default, upd, rd, dep>>

mine_h ==
    hashimoto(daggerset, params.lookups, mn.header, mn.nonce)

mine_return ==
    /\ pc = "mine"
    /\ mine_h <= threshold(params)
    /\ pc' = "idle"
    /\ last' = [op |-> "mine",
                header |-> mn.header,
                orignonce |-> mn.orignonce,
                ret |-> mn.nonce]
    /\ mn' = NoMine
    /\ UNCHANGED <<params, key, seedset, daggerset, known_default, upd, rd, dep>>

\* the nonce advanced by two
mine_next_skip ==
    /\ pc = "mine"
    /\ ~(mine_h <= threshold(params))
    /\ mn.nonce + 1 < MaxNonce
    /\ mn' = [mn EXCEPT !.nonce = @ + 2]
    /\ UNCHANGED <<params, key, seedset, daggerset, pc, last, known_default, upd, rd, dep>>

mine_next ==
    /\ pc = "mine"
    /\ ~(mine_h <= threshold(params))
    /\ mn.nonce < MaxNonce
    /\ mn' = [mn EXCEPT !.nonce = @ + 1]
    /\ UNCHANGED <<params, key, seedset, daggerset, pc, last, known_default, upd, rd, dep>>

Next ==
    \/ \E seed \in Seeds : update_daggerset(seed)
    \/ \E header \in Headers, nonce \in 0..MaxNonce : call_light_verify(header, nonce)
    \/ \E header \in Headers, nonce \in 0..MaxNonce : mine_start(header, nonce)
    \/ mine_return
    \/ mine_next

Spec ==
    Init /\ [][Next]_vars

(***************************************************************************)
(* The library called directly: quick_calc with a fresh map passed for     *)
(* known, and quick_calc with known omitted, which uses the one default    *)
(* map object that Python creates when the function is defined.            *)
(***************************************************************************)
InitQuick ==
    /\ params \in ValidParams
    /\ key \in 0..MaxKey
    /\ seedset = <<>>
    /\ daggerset = <<>>
    /\ pc = "idle"
    /\ mn = NoMine
    /\ last = NoCall
    /\ known_default = EmptyMap
    /\ upd = NoUpd
    /\ rd = NoRd
    /\ dep = NoDep

call_quick_calc(seed, pos) ==
    /\ LET r == quick_calc(params, seed, pos, EmptyMap)
       IN  last' = [op |-> "quick_calc",
                    seed |-> seed,
                    pos |-> pos,
                    ret |-> r.ret,
                    known |-> r.known]
    /\ UNCHANGED <<params, key, seedset, daggerset, pc, mn, known_default, upd, rd, dep>>

call_quick_calc_default(seed, pos) ==
    /\ LET r == quick_calc(params, seed, pos, known_default)
       IN  /\ known_default' = r.known
           /\ last' = [op |-> "quick_calc_default",
                       seed |-> seed,
                       pos |-> pos,
                       ret |-> r.ret,
                       known |-> r.known]
    /\ UNCHANGED <<params, key, seedset, daggerset, pc, mn, upd, rd, dep>>

QuickSeeds ==
    {str(0), SeedNew}

NextQuick ==
    \/ \E seed \in QuickSeeds, pos \in 0..(params.dag_size - 1) :
           call_quick_calc(seed, pos)
    \/ \E seed \in QuickSeeds, pos \in 0..(params.dag_size - 1) :
           call_quick_calc_default(seed, pos)

SpecQuick ==
    InitQuick /\ [][NextQuick]_vars

(***************************************************************************)
(* One computation of the two dependency indices, by the producer's lines  *)
(* and by the quick calculator's, for any i >= 1, d >= 2 and picker.       *)
(***************************************************************************)
NoParams ==
    params_of(NumDags * EntryBytes, NumDags, Lookups, Diff, K, 2, W)

InitDeps ==
    /\ dep \in {[i |-> i, d |-> d, picker |-> picker, done |-> FALSE] :
                   i \in 1..DepMaxI, d \in 2..DepMaxD, picker \in 0..DepMaxPicker}
    /\ params = NoParams
    /\ key = 0
    /\ seedset = <<>>
    /\ daggerset = <<>>
    /\ pc = "idle"
    /\ mn = NoMine
    /\ last = NoCall
    /\ known_default = EmptyMap
    /\ upd = NoUpd
    /\ rd = NoRd

compute_deps ==
    /\ ~dep.done
    /\ dep' = [i |-> dep.i,
               d |-> dep.d,
               picker |-> dep.picker,
               done |-> TRUE,
               produce_high |->
                   produce_pos_high(dep.i, produce_f(dep.i, dep.d), dep.picker),
               produce_low |->
                   produce_pos_low(produce_f(dep.i, dep.d),
                                   Shr(dep.picker, PickerShift)),
               calc_high |->
                   calc_pos_high(dep.i, calc_f(dep.i, dep.d), dep.picker),
               calc_low |->
                   calc_pos_low(calc_f(dep.i, dep.d),
                                Shr(dep.picker, PickerShift))]
    /\ UNCHANGED <<params, key, seedset, daggerset, pc, mn, last, known_default, upd, rd>>

NextDeps ==
    compute_deps

SpecDeps ==
    InitDeps /\ [][NextDeps]_vars

(***************************************************************************)
(* get_daggerset called with any configuration, valid or not.              *)
(***************************************************************************)
CfgParams ==
    {[memory |-> m * EntryBytes,
      numdags |-> numdags,
      dag_size |-> dag_size,
      lookups |-> lookups,
      diff |-> Diff,
      k |-> k,
      d |-> d,
      w |-> w] :
        m \in 0..(CfgMax * CfgMax), numdags \in 0..CfgMax, dag_size \in 0..CfgMax,
        lookups \in 0..1, k \in {0, K}, d \in 0..CfgMax, w \in 0..CfgMax}

\* [str(i) for i in range(numdags)]
harness_seedset(numdags) ==
    [j \in 1..numdags |-> str(j - 1)]

InitCfg ==
    /\ params \in CfgParams
    /\ key = 0
    /\ seedset = harness_seedset(params.numdags)
    /\ daggerset = <<>>
    /\ pc = "idle"
    /\ mn = NoMine
    /\ last = NoCall
    /\ known_default = EmptyMap
    /\ upd = NoUpd
    /\ rd = NoRd
    /\ dep = NoDep

call_get_daggerset ==
    /\ last.op = "none"
    /\ LET r == get_daggerset(params, seedset)
       IN  /\ daggerset' = r.dags
           /\ last' = [op |-> "get_daggerset", err |-> r.err]
    /\ UNCHANGED <<params, key, seedset, pc, mn, known_default, upd, rd, dep>>

NextCfg ==
    call_get_daggerset

SpecCfg ==
    InitCfg /\ [][NextCfg]_vars

(***************************************************************************)
(* update_daggerset on one thread, statement by statement, while another   *)
(* thread runs hashimoto over the same lists, lookup by lookup.            *)
(***************************************************************************)
InitConc ==
    Init

update_store_seed(seed) ==
    /\ pc = "idle"
    /\ LET idx == update_idx(seed, daggerset)
       IN  /\ upd' = [seed |-> seed, idx |-> idx]
           /\ seedset' = [seedset EXCEPT ![idx + 1] = seed]
    /\ pc' = "update"
    /\ UNCHANGED <<params, key, daggerset, mn, last, known_default, rd, dep>>

update_store_dag ==
    /\ pc = "update"
    /\ daggerset' = [daggerset EXCEPT ![upd.idx + 1] = produce_dag(params, upd.seed).o]
    /\ pc' = "idle"
    /\ upd' = NoUpd
    /\ UNCHANGED <<params, key, seedset, mn, last, known_default, rd, dep>>

hashimoto_start(header, nonce) ==
    /\ rd.pc = "idle"
    /\ rd' = [pc |-> "loop",
              header |-> header,
              nonce |-> nonce,
              mix |-> mix_init(header, nonce),
              i |-> 0]
    /\ UNCHANGED <<params, key, seedset, daggerset, pc, mn, last, known_default, upd, dep>>

hashimoto_lookup ==
    /\ rd.pc = "loop"
    /\ rd.i < params.lookups
    /\ rd' = [rd EXCEPT !.mix = hashimoto_loop(daggerset, rd.mix, 1), !.i = @ + 1]
    /\ UNCHANGED <<params, key, seedset, daggerset, pc, mn, last, known_default, upd, dep>>

hashimoto_return ==
    /\ rd.pc = "loop"
    /\ rd.i = params.lookups
    /\ rd' = NoRd
    /\ last' = [op |-> "hashimoto",
                header |-> rd.header,
                nonce |-> rd.nonce,
                ret |-> rd.mix]
    /\ UNCHANGED <<params, key, seedset, daggerset, pc, mn, known_default, upd, dep>>

NextConc ==
    \/ \E seed \in Seeds : update_store_seed(seed)
    \/ update_store_dag
    \/ \E nonce \in 0..1 : hashimoto_start(test(0), nonce)
    \/ hashimoto_lookup
    \/ hashimoto_return

SpecConc ==
    InitConc /\ [][NextConc]_vars

(***************************************************************************)
(* Properties.                                                             *)
(***************************************************************************)
Slots ==
    1..Len(daggerset)

\* C1: the mix light_hashimoto returns is the mix hashimoto returns over the
\* DAG-set built from the same seeds, and light_verify answers true exactly
\* when that fast-path mix is at most 2^512 / diff.
C1_VerifierMinerAgreement ==
    last.op = "light_verify" =>
        LET fast == hashimoto(get_daggerset(params, seedset).dags,
                              params.lookups, last.header, last.nonce)
        IN  /\ last.mix = fast
            /\ last.ret <=> (fast <= threshold(params))

C1_Witness ==
    /\ last.op = "light_verify"
    /\ last.ret
    /\ params.dag_size > params.d
    /\ seedset[1] # seedset[2]
    /\ last.mix # mix_init(last.header, last.nonce)

\* C3: mine returns the first nonce, counting up from the one it was given,
\* whose hashimoto mix is at most 2^512 / diff, and light_verify accepts that
\* nonce over the seeds the DAG-set was built from.
C3_MineFirstNonce ==
    last.op = "mine" =>
        /\ last.ret >= last.orignonce
        /\ hashimoto(daggerset, params.lookups, last.header, last.ret)
               <= threshold(params)
        /\ \A n \in last.orignonce..(last.ret - 1) :
               hashimoto(daggerset, params.lookups, last.header, n)
                   > threshold(params)
        /\ light_verify(params, seedset, last.header, last.ret)

C3_Witness ==
    /\ last.op = "mine"
    /\ last.ret > last.orignonce + 1
    /\ \E j \in Slots : seedset[j] \notin InitSeeds

\* C4: update_daggerset(seed) leaves every slot other than
\* idx = decode_int(seed) mod numdags as it was, in both lists, puts the seed
\* in seedset[idx] and produce_dag of the seed in daggerset[idx]; so between
\* calls every DAG is the one produced from the seed of its slot.
C4_UpdateLocality ==
    /\ [](pc = "idle" =>
            \A j \in Slots : daggerset[j] = produce_dag(params, seedset[j]).o)
    /\ [][\A seed \in Seeds :
            update_daggerset(seed) =>
                LET idx == decode_int(seed) % params.numdags
                IN  /\ \A j \in Slots \ {idx + 1} :
                           /\ seedset'[j] = seedset[j]
                           /\ daggerset'[j] = daggerset[j]
                    /\ seedset'[idx + 1] = seed
                    /\ daggerset'[idx + 1] = produce_dag(params, seed).o]_vars

C4_Witness ==
    /\ last.op = "update_daggerset"
    /\ last.seed = SeedNew
    /\ \E j \in Slots : seedset[j] = str(2)
    /\ params.dag_size > 1

\* C9 as stated: every entry of every DAG, DAG[0] included, is below P.
C9_AllEntriesBelowP ==
    \A j \in Slots : \A i \in 1..Len(daggerset[j]) :
        0 <= daggerset[j][i] /\ daggerset[j][i] < P

\* C9 as amended: every entry at an index >= 1 is below P, DAG[0] is below
\* 2^512, and the mix of hashimoto is below 2^512 after every XOR.
C9_EntriesBounded ==
    /\ \A j \in Slots :
           /\ 0 <= daggerset[j][1] /\ daggerset[j][1] < MixSpace
           /\ \A i \in 2..Len(daggerset[j]) :
                  0 <= daggerset[j][i] /\ daggerset[j][i] < P
    /\ pc = "mine" =>
           \A n \in 0..params.lookups :
               hashimoto(daggerset, n, mn.header, mn.nonce) < MixSpace
    /\ last.op = "light_verify" => last.mix < MixSpace

C9_Witness ==
    /\ pc = "mine"
    /\ \E j \in Slots : daggerset[j][1] >= P /\ Len(daggerset[j]) > 2
    /\ mine_h # mix_init(mn.header, mn.nonce)

(***************************************************************************)
(* Properties of quick_calc called directly.                               *)
(***************************************************************************)
\* the entry produce_dag puts at index pos
produced(seed, pos) ==
    produce_dag(params, seed).o[pos + 1]

\* C2: quick_calc with a fresh empty known-map returns the entry produce_dag
\* puts at pos, and the producer's running picker at iteration pos is
\* init^pos mod P, the value quick_calc computes directly.
C2_QuickCalcIsProduced ==
    last.op = "quick_calc" =>
        /\ last.ret = produced(last.seed, last.pos)
        /\ LET st == produce_start(last.seed)
           IN  produce_loop(params, st.o[1], st, 1, last.pos + 1).picker
                   = calc_picker(st.o[1], last.pos)

C2_Witness ==
    /\ last.op = "quick_calc"
    /\ last.pos > params.d
    /\ Cardinality(DOMAIN last.known) > 2
    /\ last.ret # 0

\* the indices the dependency rule reaches from i
RECURSIVE Reach(_, _, _)
Reach(prm, init, i) ==
    IF i = 0 THEN {0}
    ELSE LET picker == pow(init, i, P)
             f == produce_f(i, prm.d)
         IN  {i} \cup Reach(prm, init, produce_pos_high(i, f, picker))
                 \cup Reach(prm, init,
                            produce_pos_low(f, Shr(picker, PickerShift)))

ReachOnly ==
    DOMAIN last.known \subseteq
        ({0} \cup Reach(params, Sq(sha3(last.seed)), last.pos))

\* C8 as stated: after one quick_calc with a fresh map the known-map holds
\* only index 0 and indices reachable from pos, all <= pos, and strictly
\* fewer than dag_size entries.
C8_FewerThanDagSize ==
    last.op = "quick_calc" =>
        /\ ReachOnly
        /\ \A i \in DOMAIN last.known : i <= last.pos
        /\ Cardinality(DOMAIN last.known) < params.dag_size

\* C8 as amended: after one quick_calc with a fresh map the known-map holds
\* only index 0 and indices reachable from pos, all <= pos, and so at most
\* pos + 1 entries, which is at most dag_size.
C8_AtMostDagSize ==
    last.op = "quick_calc" =>
        /\ ReachOnly
        /\ \A i \in DOMAIN last.known : 0 <= i /\ i <= last.pos
        /\ Cardinality(DOMAIN last.known) <= last.pos + 1
        /\ Cardinality(DOMAIN last.known) <= params.dag_size

C8_Witness ==
    /\ last.op = "quick_calc"
    /\ last.pos = params.dag_size - 1
    /\ last.pos >= params.d
    /\ Cardinality(DOMAIN last.known) < params.dag_size

\* C10: whatever calls came before, with known passed or omitted, a call's
\* result is the entry of its own seed's DAG: nothing memoized for another
\* seed or by another call is read.
C10_NoContamination ==
    last.op \in {"quick_calc", "quick_calc_default"} =>
        last.ret = produced(last.seed, last.pos)

(***************************************************************************)
(* Properties of the dependency indices.                                   *)
(***************************************************************************)
DepsInRange(i, d, high, low) ==
    /\ i - (i \div d) - 1 <= high
    /\ high <= i - 1
    /\ 0 <= low
    /\ low <= i \div d
    /\ i \div d <= i - 1
    /\ i < d => (high = i - 1 /\ low = 0)

\* C7: for i >= 1 and d >= 2 the producer's and the quick calculator's
\* dependency indices satisfy i - floor(i/d) - 1 <= pos_high <= i - 1 and
\* 0 <= pos_low <= floor(i/d) <= i - 1, and are i - 1 and 0 when i < d: both
\* are list indices below i, so the recursion descends.
C7_DependencyRange ==
    dep.done =>
        /\ DepsInRange(dep.i, dep.d, dep.produce_high, dep.produce_low)
        /\ DepsInRange(dep.i, dep.d, dep.calc_high, dep.calc_low)

C7_Witness ==
    /\ dep.done
    /\ dep.i >= 2 * dep.d
    /\ dep.produce_high < dep.i - 1
    /\ dep.produce_high > dep.i - (dep.i \div dep.d) - 1
    /\ dep.calc_low > 0
    /\ dep.calc_low < dep.i \div dep.d

(***************************************************************************)
(* Properties of building with any configuration.                          *)
(***************************************************************************)
ConfigInvalid(prm) ==
    \/ prm.memory = 0
    \/ prm.numdags = 0
    \/ prm.dag_size = 0
    \/ prm.d = 0
    \/ prm.k = 0
    \/ prm.w = 0
    \/ prm.lookups = 0
    \/ prm.numdags * prm.dag_size * EntryBytes # prm.memory
    \/ prm.d < 2

\* C6: a build with an invalid configuration is rejected with ConfigInvalid
\* and produces no DAG.
C6_ConfigInvalidRejected ==
    (last.op = "get_daggerset" /\ ConfigInvalid(params)) =>
        (last.err = "ConfigInvalid" /\ daggerset = <<>>)

(***************************************************************************)
(* Properties of an update concurrent with a reader.                       *)
(***************************************************************************)
\* C5: while a hashimoto call is in progress, every slot pairs a seed with
\* the DAG produced from that seed: the old seed with the old DAG or the new
\* seed with the new DAG.
C5_AtomicSwap ==
    rd.pc = "loop" =>
        \A j \in Slots : daggerset[j] = produce_dag(params, seedset[j]).o

====
